---- MODULE Spec2Model ----
(***************************************************************************)
(* A model of the uplink moira bot: the chat command dispatcher            *)
(* (handleCommand, in its two versions), the identity extraction           *)
(* (extractLocalpart) and the directory client adapter (class Moira).      *)
(*                                                                         *)
(* Strings are sequences of atoms.  An atom is either one of the special   *)
(* characters the code looks at ("@", ":", "/", " ", "\n") or an opaque    *)
(* non-empty run of ordinary characters ("jdoe", "ATHENA.MIT.EDU").        *)
(* JavaScript's undefined is the empty option <<>>, a defined value x is   *)
(* the option <<x>>.                                                       *)
(***************************************************************************)
EXTENDS Integers, Sequences, FiniteSets, TLC

VARIABLES
    program,    \* which entry point runs: "part_000" (hello only) or "part_001"
    inv,        \* inv[i]: the i-th handleCommand invocation (its event, its position)
    sent,       \* sent[i]: the replyNotice calls made by invocation i, in order
    username,   \* extractLocalpart's argument
    localpart,  \* extractLocalpart's outcome
    method,     \* the adapter method called
    request,    \* the remote call it issued
    result,     \* result[0] of that remote call
    outcome     \* what the adapter method returned or threw

vars == <<program, inv, sent, username, localpart, method, request, result, outcome>>

----------------------------------------------------------------------------
(* Bounds *)

NumInvocations == 2     \* handleCommand invocations that may be in flight together
MaxIdLen == 5           \* atoms in an identifier given to extractLocalpart
MaxMembers == 3         \* members in a getListMembership answer
MaxLists == 3           \* names in a getUserLists answer

----------------------------------------------------------------------------
(* Values *)

Undefined == <<>>
Defined(x) == <<x>>

Return(v) == [kind |-> "return", error |-> "none", value |-> v]
Throw(e) == [kind |-> "throw", error |-> e, value |-> <<>>]

\* String.prototype.startsWith
StartsWith(s, prefix) ==
    /\ Len(s) >= Len(prefix)
    /\ SubSeq(s, 1, Len(prefix)) = prefix

\* Array.prototype.join
RECURSIVE Join(_, _)
Join(strings, sep) ==
    IF Len(strings) = 0 THEN <<>>
    ELSE IF Len(strings) = 1 THEN strings[1]
    ELSE strings[1] \o sep \o Join(Tail(strings), sep)

----------------------------------------------------------------------------
(* Identity extraction: username.match(/@(.+):.+/)![1] *)

\* "." matches any character but a line terminator
Dot(c) == c # "\n"

\* the ends e of group 1 for a match that starts at the "@" at position s:
\* s+1..e is a non-empty run of "."s, a ":" follows, and at least one "." after it
GroupEnds(s, str) ==
    { e \in (s + 1)..(Len(str) - 2) :
        /\ \A k \in (s + 1)..e : Dot(str[k])
        /\ str[e + 1] = ":"
        /\ Dot(str[e + 2]) }

\* the positions a match can start at
MatchStarts(str) ==
    { s \in 1..Len(str) : str[s] = "@" /\ GroupEnds(s, str) # {} }

Max(S) == CHOOSE x \in S : \A y \in S : y <= x
Min(S) == CHOOSE x \in S : \A y \in S : x <= y

\* String.prototype.match: the leftmost match, its group taken greedily;
\* null (here Undefined) when there is none
Match(str) ==
    IF MatchStarts(str) = {} THEN Undefined
    ELSE LET s == Min(MatchStarts(str))
             e == Max(GroupEnds(s, str))
         IN  Defined(SubSeq(str, s + 1, e))

extractLocalpart(name) ==
    LET m == Match(name)
    IN  IF m = Undefined THEN Throw("TypeError") ELSE Return(m[1])

----------------------------------------------------------------------------
(* Directory client adapter: class Moira.                                  *)
(* The remote service is the environment: every adapter method is given    *)
(* result[0] of the one remote call it makes, res, which is null           *)
(* ([isNull |-> TRUE]) or an object whose <method>Return field is res.ret. *)

NullResult == [isNull |-> TRUE, ret |-> <<>>]
Payload(v) == [isNull |-> FALSE, ret |-> v]

\* apiCall, lines 104-107: a null result[0] throws, anything else is unwrapped
apiCall(res) ==
    IF res.isNull THEN Throw("NoAPIResult") ELSE Return(res.ret)

\* the arguments of the remote calls
getMembersOfListRequest(listName, recursiveSearch) ==
    [method |-> "getListMembership",
     args |-> [listName |-> listName, recursiveSearch |-> recursiveSearch,
               maxReturnCount |-> 0]]
getListAttributesRequest(listName) ==
    [method |-> "getListAttributes", args |-> [listName |-> listName]]
getUserAttributesRequest(kerb) ==
    [method |-> "getUserAttributes", args |-> [memberID |-> kerb]]
getUserListsRequest(kerb) ==
    [method |-> "getUserLists", args |-> [memberID |-> kerb, memberType |-> "USER"]]

getMembersOfList(res) == apiCall(res)

\* String.prototype.includes, for a one-character needle
Includes(str, c) == \E k \in 1..Len(str) : str[k] = c

\* String.prototype.split, for a one-character separator
RECURSIVE Split(_, _)
Split(str, sep) ==
    IF ~Includes(str, sep) THEN <<str>>
    ELSE LET k == Min({ j \in 1..Len(str) : str[j] = sep })
         IN  <<SubSeq(str, 1, k - 1)>> \o Split(SubSeq(str, k + 1, Len(str)), sep)

\* const [kerb, extension] = parts
Second(parts) == IF Len(parts) >= 2 THEN Defined(parts[2]) ELSE Undefined

ATHENA == <<"ATHENA.MIT.EDU">>
MIT == <<"MIT.EDU">>

\* line 143 (variant: the /root form accepted for both realms)
AnyRootExtension(extension) ==
    \/ extension = Defined(<<"root", "@">> \o ATHENA)
    \/ extension = Defined(<<"root", "@">> \o MIT)
IsRootExtension(extension) ==
    extension = Defined(<<"root", "@">> \o ATHENA)

\* line 148
IsRealmExtension(extension) ==
    extension = Defined(ATHENA) \/ extension = Defined(MIT)

\* allMembers.filter((member) => member.type == type).map((member) => member.member)
filterByType(allMembers, type) ==
    LET kept == SelectSeq(allMembers, LAMBDA member : member.type = type)
    IN  [k \in 1..Len(kept) |-> kept[k].member]

\* the loop of lines 140-152, over the KERBEROS members left to visit
RECURSIVE athenaUsers(_)
athenaUsers(users) ==
    IF users = <<>> THEN <<>>
    ELSE LET user == Head(users)
             parts == IF Includes(user, "/") THEN Split(user, "/") ELSE Split(user, "@")
             pushed == IF Includes(user, "/")
                       THEN IsRootExtension(Second(parts))
                       ELSE IsRealmExtension(Second(parts))
         IN  (IF pushed THEN <<parts[1]>> ELSE <<>>) \o athenaUsers(Tail(users))

getMITMembersOfList(res) ==
    LET allMembers == getMembersOfList(res)
    IN  IF allMembers.kind = "throw" THEN allMembers
        ELSE Return(filterByType(allMembers.value, "USER")
                    \o athenaUsers(filterByType(allMembers.value, "KERBEROS")))

\* array[0]
Index0(array) == IF Len(array) = 0 THEN Undefined ELSE Defined(array[1])

getListAttributes(res) ==
    LET r == apiCall(res)
    IN  IF r.kind = "throw" THEN r ELSE Return(Index0(r.value))

getUserAttributes(res) ==
    LET r == apiCall(res)
    IN  IF r.kind = "throw" THEN r ELSE Return(Index0(r.value))

\* String.prototype.replace('  ', ' '): the first two adjacent spaces become one
ReplaceDoubleSpace(str) ==
    LET at == { k \in 1..(Len(str) - 1) : str[k] = " " /\ str[k + 1] = " " }
    IN  IF at = {} THEN str
        ELSE SubSeq(str, 1, Min(at)) \o SubSeq(str, Min(at) + 2, Len(str))

\* reading a property of undefined throws a TypeError
getUserName(res) ==
    LET attributes == getUserAttributes(res)
    IN  IF attributes.kind = "throw" THEN attributes
        ELSE IF attributes.value = Undefined THEN Throw("TypeError")
        ELSE LET a == attributes.value[1]
             IN  Return(ReplaceDoubleSpace(
                     a.first \o <<" ">> \o a.middle \o <<" ">> \o a.last))

getUserLists(res) == apiCall(res)

\* line 185, and part_001 line 47
LibraryPrefix == <<"canvas">>
HandlerPrefix == <<"canvas", "-2023">>

\* (variant: the library filters on the handler's prefix)

getUserClassesUnified(res) ==
    LET lists == getUserLists(res)
    IN  IF lists.kind = "throw" THEN lists
        ELSE Return(SelectSeq(lists.value, LAMBDA name : StartsWith(name, HandlerPrefix)))
getUserClasses(res) ==
    LET lists == getUserLists(res)
    IN  IF lists.kind = "throw" THEN lists
        ELSE Return(SelectSeq(lists.value, LAMBDA name : StartsWith(name, LibraryPrefix)))

----------------------------------------------------------------------------
(* Command dispatcher: handleCommand.                                      *)
(* An invocation runs from one await to the next in one step; invocations  *)
(* of distinct events interleave at their awaits.                          *)

Invocations == 1..NumInvocations

UserId == <<"@", "moirabot", ":", "matrix.example.org">>   \* client.getUserId()
Senders == { UserId,
             <<"@", "jdoe", ":", "matrix.example.org">>,
             <<"jdoe">> }
Rooms == { "!room1", "!room2" }
MsgTypes == { Defined("m.text"), Defined("m.image"), Undefined }
Bodies == { Undefined,
            Defined(<<"!hello", " ", "there">>),
            Defined(<<"!myclasses">>),
            Defined(<<"!myname">>),
            Defined(<<"say", " ", "!hello">>) }

\* the events the chat library may deliver, with the room each arrives in;
\* event_id tells distinct events apart
TextEvents(i) ==
    [event_id : {i}, msgtype : {Defined("m.text")}, sender : Senders, body : Bodies]
OtherEvents(i) ==
    [event_id : {i}, msgtype : MsgTypes \ {Defined("m.text")}, sender : Senders,
     body : {Undefined, Defined(<<"!hello", " ", "there">>)}]
Deliveries(i) ==
    (Rooms \X TextEvents(i)) \cup ({"!room1"} \X OtherEvents(i))

\* what the directory service may answer a handler's call
UserListsAnswers ==
    { NullResult, Payload(<<>>),
      Payload(<< <<"canvas", "-2023", "-6.004">>, <<"sipb-board">>,
                 <<"canvas", "-archive">> >>) }
UserAttributesAnswers ==
    { NullResult, Payload(<<>>),
      Payload(<< [first |-> <<"Jane">>, middle |-> <<>>, last |-> <<"Doe">>] >>) }

NoEvent == [event_id |-> 0, msgtype |-> Undefined, sender |-> <<>>, body |-> Undefined]
NoRequest == [method |-> "none", args |-> <<>>]

Idle ==
    [pc |-> "idle", roomId |-> "none", event |-> NoEvent, calls |-> <<>>,
     answered |-> FALSE, answer |-> NullResult, error |-> "none"]

\* client.replyNotice(roomId, event, text)
\* (variant: the reply goes to a room other than the invocation's)
replyNoticeElsewhere(i, text) ==
    [sent EXCEPT ![i] = Append(@, [roomId |-> CHOOSE r \in Rooms : r # inv[i].roomId,
                                     event_id |-> inv[i].event.event_id,
                                     text |-> text])]
replyNotice(i, text) ==
    [sent EXCEPT ![i] = Append(@, [roomId |-> inv[i].roomId,
                                     event_id |-> inv[i].event.event_id,
                                     text |-> text])]

\* await: an invocation suspended at `at` is resumed once its own promise
\* settles, whatever the other invocations are doing
\* (variant: handlers run one after another, each waiting for the earlier ones
\* to return)
ResumableInTurn(i, at) ==
    /\ inv[i].pc = at
    /\ \A j \in 1..(i - 1) : inv[j].pc = "done"
Resumable(i, at) == inv[i].pc = at

\* the handler calls an adapter method, which issues its remote call, and awaits it
\* (variant: the remote call is issued twice)
IssueCallTwice(i, at, req) ==
    inv' = [inv EXCEPT ![i].pc = at, ![i].calls = Append(Append(@, req), req)]
IssueCall(i, at, req) ==
    inv' = [inv EXCEPT ![i].pc = at, ![i].calls = Append(@, req)]

\* the handler returns
Finish(i) == inv' = [inv EXCEPT ![i].pc = "done"]
\* the handler's promise rejects; nothing catches it
Reject(i, e) == inv' = [inv EXCEPT ![i].pc = "failed", ![i].error = e]
\* the same, for a handler resumed by the answer of its remote call
FinishAnswered(i, answer) ==
    inv' = [inv EXCEPT ![i].pc = "done", ![i].answered = TRUE, ![i].answer = answer]
RejectAnswered(i, answer, e) ==
    inv' = [inv EXCEPT ![i].pc = "failed", ![i].error = e,
                       ![i].answered = TRUE, ![i].answer = answer]

\* line 30 / line 37: event['content']?.['msgtype'] !== 'm.text'
NotText(event) == event.msgtype # Defined("m.text")
\* line 31 / line 38: event['sender'] === await client.getUserId()
\* (variant: the await is missing, the sender is compared with a promise)
SentByUsUnawaited(event) == event.sender = <<"[object Promise]">>
SentByUs(event) == event.sender = UserId

\* body.startsWith(prefix): a TypeError when body is undefined
\* body?.startsWith(prefix): undefined when body is undefined
BodyStartsWith(body, prefix) == StartsWith(body[1], prefix)

\* lines 47-48
currentClasses(classes) ==
    SelectSeq(classes, LAMBDA name : StartsWith(name, HandlerPrefix))
myclassesReply(classes) == Join(currentClasses(classes), <<"\n">>)

\* the room.message listener is called with one of deliveries, the events that
\* may arrive: the handler runs to its first await
Deliver(i, deliveries) ==
    /\ inv[i].pc = "idle"
    /\ \A j \in 1..(i - 1) : inv[j].pc # "idle"
    /\ \E d \in deliveries :
           inv' = [inv EXCEPT ![i] =
                     [Idle EXCEPT !.roomId = d[1], !.event = d[2],
                                  !.pc = IF NotText(d[2]) THEN "done" ELSE "getUserId"]]
    /\ UNCHANGED <<program, sent, username, localpart, method, request, result, outcome>>

\* part_000, lines 31-38
handleCommandHello(i) ==
    /\ program = "part_000"
    /\ Resumable(i, "getUserId")
    /\ LET event == inv[i].event
           body == event.body
       IN  IF SentByUs(event) THEN Finish(i) /\ UNCHANGED sent
           ELSE IF body = Undefined \/ ~BodyStartsWith(body, <<"!hello">>)
           THEN Finish(i) /\ UNCHANGED sent
           ELSE Finish(i) /\ sent' = replyNotice(i, <<"Hello world!">>)
    /\ UNCHANGED <<program, username, localpart, method, request, result, outcome>>

\* part_001, lines 38-51, up to the await of the branch taken
Dispatch(i) ==
    /\ program = "part_001"
    /\ Resumable(i, "getUserId")
    /\ LET event == inv[i].event
           body == event.body
           name == extractLocalpart(event.sender)
       IN  IF SentByUs(event) THEN Finish(i) /\ UNCHANGED sent
           ELSE IF name.kind = "throw" THEN Reject(i, name.error) /\ UNCHANGED sent
           ELSE IF body = Undefined THEN Reject(i, "TypeError") /\ UNCHANGED sent
           ELSE IF BodyStartsWith(body, <<"!hello">>)
           THEN Finish(i) /\ sent' = replyNotice(i, <<"Hello world!">>)
           ELSE IF BodyStartsWith(body, <<"!myclasses">>)
           THEN /\ IssueCall(i, "getUserClasses", getUserListsRequest(name.value))
                /\ UNCHANGED sent
           ELSE IF BodyStartsWith(body, <<"!myname">>)
           THEN /\ IssueCall(i, "getUserName", getUserAttributesRequest(name.value))
                /\ UNCHANGED sent
           ELSE Finish(i) /\ UNCHANGED sent
    /\ UNCHANGED <<program, username, localpart, method, request, result, outcome>>

\* part_001, lines 46-48, resumed by the answer of the remote call
MyClasses(i, answer) ==
    /\ Resumable(i, "getUserClasses")
    /\ LET classes == getUserClasses(answer)
       IN  IF classes.kind = "throw"
           THEN RejectAnswered(i, answer, classes.error) /\ UNCHANGED sent
           ELSE /\ FinishAnswered(i, answer)
                /\ sent' = replyNotice(i, myclassesReply(classes.value))
    /\ UNCHANGED <<program, username, localpart, method, request, result, outcome>>

\* part_001, line 50, resumed by the answer of the remote call
MyName(i, answer) ==
    /\ Resumable(i, "getUserName")
    /\ LET name == getUserName(answer)
       IN  IF name.kind = "throw"
           THEN RejectAnswered(i, answer, name.error) /\ UNCHANGED sent
           ELSE /\ FinishAnswered(i, answer)
                /\ sent' = replyNotice(i, name.value)
    /\ UNCHANGED <<program, username, localpart, method, request, result, outcome>>

NotCalled == Throw("not called")

NoCall ==
    /\ username = <<>> /\ localpart = NotCalled
    /\ method = "none" /\ request = NoRequest /\ result = NullResult
    /\ outcome = NotCalled

NoBot ==
    /\ program = "part_001"
    /\ inv = [i \in Invocations |-> Idle]
    /\ sent = [i \in Invocations |-> <<>>]

Init ==
    /\ program \in {"part_000", "part_001"}
    /\ inv = [i \in Invocations |-> Idle]
    /\ sent = [i \in Invocations |-> <<>>]
    /\ NoCall

Next ==
    \/ \E i \in Invocations : Deliver(i, Deliveries(i))
    \/ \E i \in Invocations : handleCommandHello(i)
    \/ \E i \in Invocations : Dispatch(i)
    \/ \E i \in Invocations : \E answer \in UserListsAnswers : MyClasses(i, answer)
    \/ \E i \in Invocations : \E answer \in UserAttributesAnswers : MyName(i, answer)

Spec == Init /\ [][Next]_vars

\* The same handlers under the event loop's scheduling: a handler whose
\* getUserId promise has resolved is resumed.  Nothing makes the directory
\* service answer, so the steps an answer resumes are not fair.  The events
\* here are text messages in one room: commands from a well-formed sender,
\* and the events that make a handler fail.
FairDeliveries(i) ==
    { d \in {"!room1"} \X TextEvents(i) :
        \/ /\ d[2].sender = <<"@", "jdoe", ":", "matrix.example.org">>
           /\ d[2].body # Defined(<<"say", " ", "!hello">>)
        \/ /\ d[2].sender = <<"jdoe">>
           /\ d[2].body \in { Defined(<<"!hello", " ", "there">>), Defined(<<"!myname">>) } }

InitFair ==
    /\ program = "part_001"
    /\ inv = [i \in Invocations |-> Idle]
    /\ sent = [i \in Invocations |-> <<>>]
    /\ NoCall

NextFair ==
    \/ \E i \in Invocations : Deliver(i, FairDeliveries(i))
    \/ \E i \in Invocations : Dispatch(i)
    \/ \E i \in Invocations : \E answer \in UserListsAnswers : MyClasses(i, answer)
    \/ \E i \in Invocations : \E answer \in UserAttributesAnswers : MyName(i, answer)

FairSpec ==
    /\ InitFair
    /\ [][NextFair]_vars
    /\ \A i \in Invocations : WF_vars(Dispatch(i))

----------------------------------------------------------------------------
(* extractLocalpart on its own, over every identifier of up to MaxIdLen    *)
(* atoms                                                                   *)

SeqsUpTo(S, n) == UNION { [1..k -> S] : k \in 0..n }

IdAtoms == { "@", ":", "jdoe", "\n" }
Identifiers == SeqsUpTo(IdAtoms, MaxIdLen)

CallExtractLocalpart ==
    /\ localpart = NotCalled
    /\ localpart' = extractLocalpart(username)
    /\ UNCHANGED <<program, inv, sent, username, method, request, result, outcome>>

InitLocalpart ==
    /\ NoBot
    /\ username \in Identifiers
    /\ localpart = NotCalled
    /\ method = "none" /\ request = NoRequest /\ result = NullResult
    /\ outcome = NotCalled

SpecLocalpart == InitLocalpart /\ [][CallExtractLocalpart]_vars

----------------------------------------------------------------------------
(* The adapter's methods on their own, over the answers of the remote      *)
(* service                                                                 *)

MemberTypes == { "USER", "LIST", "STRING", "KERBEROS", "user" }
MemberNames ==
    { <<"abc">>,
      <<"xyz", "/", "root", "@", "ATHENA.MIT.EDU">>,
      <<"xyz", "/", "root", "@", "MIT.EDU">>,
      <<"xyz", "/", "admin", "@", "ATHENA.MIT.EDU">>,
      <<"xyz", "/", "root", "@", "ATHENA.MIT.EDU", "/", "x">>,
      <<"xyz", "@", "MIT.EDU">>,
      <<"xyz", "@", "MIT.EDU", "@", "x">>,
      <<"foo", "@", "CORP.EXAMPLE">> }
\* every name as a KERBEROS member; the other types, and a type in another
\* case, with a plain name and with a name a KERBEROS member would be kept for
OtherNames == { <<"abc">>, <<"xyz", "@", "MIT.EDU">> }
ListMembers ==
    [list : {<<"sipb">>}, member : MemberNames, type : {"KERBEROS"}]
    \cup [list : {<<"sipb">>}, member : OtherNames, type : MemberTypes \ {"KERBEROS"}]

ListNames ==
    { <<"canvas", "-2023", "-6.004">>, <<"sipb-board">>, <<"canvas", "-archive">>,
      <<"canvas">>, <<"my", "canvas", "-2023">> }

UserAttributes ==
    [first : {<<"Jane">>}, middle : {<<>>, <<"Q">>}, last : {<<"Doe">>, <<>>}]
ListAttributes == [listName : {<<"sipb">>}, description : {<<>>, <<"SIPB">>}]

Results(S, n) == {NullResult} \cup { Payload(v) : v \in SeqsUpTo(S, n) }

MembershipResults == Results(ListMembers, MaxMembers)
UserListsResults == Results(ListNames, MaxLists)
UserAttributesResults == Results(UserAttributes, 1)
ListAttributesResults == Results(ListAttributes, 1)

Kerbs == { <<"abc">>, <<"jdoe">> }

\* one call of an adapter method: the remote call it issues, the answer, what it
\* returns or throws
Called(name, req, res, out) ==
    /\ method' = name
    /\ request' = req
    /\ result' = res
    /\ outcome' = out
    /\ UNCHANGED <<program, inv, sent, username, localpart>>

CallGetMembersOfList ==
    /\ method = "none"
    /\ \E recursiveSearch \in BOOLEAN, res \in MembershipResults :
           Called("getMembersOfList",
                  getMembersOfListRequest(<<"sipb">>, recursiveSearch),
                  res, getMembersOfList(res))

CallGetMITMembersOfList ==
    /\ method = "none"
    /\ \E res \in MembershipResults :
           Called("getMITMembersOfList", getMembersOfListRequest(<<"sipb">>, TRUE),
                  res, getMITMembersOfList(res))

CallGetListAttributes ==
    /\ method = "none"
    /\ \E res \in ListAttributesResults :
           Called("getListAttributes", getListAttributesRequest(<<"sipb">>),
                  res, getListAttributes(res))

CallGetUserAttributes ==
    /\ method = "none"
    /\ \E kerb \in Kerbs, res \in UserAttributesResults :
           Called("getUserAttributes", getUserAttributesRequest(kerb),
                  res, getUserAttributes(res))

CallGetUserName ==
    /\ method = "none"
    /\ \E kerb \in Kerbs, res \in UserAttributesResults :
           Called("getUserName", getUserAttributesRequest(kerb), res, getUserName(res))

CallGetUserLists ==
    /\ method = "none"
    /\ \E kerb \in Kerbs, res \in UserListsResults :
           Called("getUserLists", getUserListsRequest(kerb), res, getUserLists(res))

CallGetUserClasses ==
    /\ method = "none"
    /\ \E kerb \in Kerbs, res \in UserListsResults :
           Called("getUserClasses", getUserListsRequest(kerb), res, getUserClasses(res))

InitMoira == NoBot /\ NoCall

NextMoira ==
    \/ CallGetMembersOfList
    \/ CallGetMITMembersOfList
    \/ CallGetListAttributes
    \/ CallGetUserAttributes
    \/ CallGetUserName
    \/ CallGetUserLists
    \/ CallGetUserClasses

SpecMoira == InitMoira /\ [][NextMoira]_vars

----------------------------------------------------------------------------
(* Properties of the command dispatcher *)

IsTextEvent(event) == event.msgtype = Defined("m.text")
FromUs(event) == event.sender = UserId
HasPrefix(str, prefix) == \E k \in 0..Len(str) : SubSeq(str, 1, k) = prefix
BodyHas(event, prefix) == event.body # Undefined /\ HasPrefix(event.body[1], prefix)

\* the recognized command of an event, hello before myclasses before myname
CommandOf(event) ==
    IF BodyHas(event, <<"!hello">>) THEN "hello"
    ELSE IF program = "part_001" /\ BodyHas(event, <<"!myclasses">>) THEN "myclasses"
    ELSE IF program = "part_001" /\ BodyHas(event, <<"!myname">>) THEN "myname"
    ELSE "none"

\* @name:domain, name and domain free of separators
IsUserIdentifier(str) ==
    \E k \in 3..(Len(str) - 1) :
        /\ str[1] = "@"
        /\ str[k] = ":"
        /\ \A j \in 2..(k - 1) : str[j] \notin {"@", ":", "\n"}
        /\ \A j \in (k + 1)..Len(str) : str[j] \notin {"@", ":", "\n"}
NameOf(str) == SubSeq(str, 2, Min({ k \in 1..Len(str) : str[k] = ":" }) - 1)

Ended(i) == inv[i].pc \in {"done", "failed"}
Methods(i) == [k \in 1..Len(inv[i].calls) |-> inv[i].calls[k].method]
RepliesTo(k) ==
    { <<j, n>> \in Invocations \X (1..NumInvocations + 2) :
        n <= Len(sent[j]) /\ sent[j][n].event_id = k }
HelloReply(i) ==
    [roomId |-> inv[i].roomId, event_id |-> inv[i].event.event_id,
     text |-> <<"Hello world!">>]

\* C1: an event that is not a text message, or that the bot itself sent, gets no
\* reply from any invocation, its handler makes no directory call and never fails
C1_NoReplyToFiltered ==
    \A i \in Invocations :
        (inv[i].pc # "idle" /\ (~IsTextEvent(inv[i].event) \/ FromUs(inv[i].event)))
        => /\ RepliesTo(inv[i].event.event_id) = {}
           /\ sent[i] = <<>>
           /\ inv[i].calls = <<>>
           /\ inv[i].pc \in {"getUserId", "done"}

C1_Witness ==
    \E i, j \in Invocations :
        /\ inv[i].pc = "done" /\ ~IsTextEvent(inv[i].event)
        /\ BodyHas(inv[i].event, <<"!hello">>)
        /\ inv[j].pc = "done" /\ IsTextEvent(inv[j].event) /\ FromUs(inv[j].event)
        /\ BodyHas(inv[j].event, <<"!myname">>)

\* C2: a text event not sent by the bot whose body starts with !hello is answered
\* with exactly the reply "Hello world!", and no directory call, whatever the
\* sender identifier looks like
C2_HelloAlwaysReplies ==
    \A i \in Invocations :
        (Ended(i) /\ IsTextEvent(inv[i].event) /\ ~FromUs(inv[i].event)
                  /\ BodyHas(inv[i].event, <<"!hello">>))
        => /\ sent[i] = <<HelloReply(i)>>
           /\ inv[i].calls = <<>>

\* C3: a text event not sent by the bot whose body starts with none of the three
\* prefixes (an absent body included, any sender) gets no reply and its handler
\* ends without an error
C3_UnmatchedIsSilent ==
    \A i \in Invocations :
        (Ended(i) /\ IsTextEvent(inv[i].event) /\ ~FromUs(inv[i].event)
                  /\ ~BodyHas(inv[i].event, <<"!hello">>)
                  /\ ~BodyHas(inv[i].event, <<"!myclasses">>)
                  /\ ~BodyHas(inv[i].event, <<"!myname">>))
        => /\ sent[i] = <<>>
           /\ inv[i].pc = "done"
           /\ inv[i].error = "none"

\* C4: however the invocations interleave, an event gets at most one reply; the
\* reply is the one of the event's recognized command (hello, else myclasses,
\* else myname), and it goes to the room and the event of the invocation that
\* sent it
C4_OneReplyPerEvent ==
    \A i \in Invocations :
        /\ Cardinality(RepliesTo(i)) <= 1
        /\ \A n \in 1..Len(sent[i]) :
              /\ sent[i][n].roomId = inv[i].roomId
              /\ sent[i][n].event_id = inv[i].event.event_id
              /\ sent[i][n].event_id = i
              /\ CommandOf(inv[i].event) # "none"
              /\ CommandOf(inv[i].event) = "hello"
                    => sent[i][n].text = <<"Hello world!">> /\ inv[i].calls = <<>>
              /\ CommandOf(inv[i].event) = "myclasses"
                    => /\ Methods(i) = <<"getUserLists">>
                       /\ sent[i][n].text =
                            Join(SelectSeq(inv[i].answer.ret,
                                           LAMBDA name : HasPrefix(name, <<"canvas", "-2023">>)),
                                 <<"\n">>)
              /\ CommandOf(inv[i].event) = "myname"
                    => /\ Methods(i) = <<"getUserAttributes">>
                       /\ sent[i][n].text = getUserName(inv[i].answer).value

C4_Witness ==
    \E i, j \in Invocations :
        /\ i < j
        /\ inv[i].pc = "getUserClasses"
        /\ inv[j].pc = "done" /\ Len(sent[j]) = 1
        /\ CommandOf(inv[j].event) = "myname"
        /\ inv[i].roomId # inv[j].roomId

\* C9: an invocation issues at most one remote call: none for !hello, one
\* getUserLists for !myclasses and one getUserAttributes for !myname, for the
\* sender's localpart; and a reply to !myclasses or !myname is sent only once
\* that call has answered
C9_OneCallBeforeReply ==
    \A i \in Invocations :
        LET event == inv[i].event
            dispatched == /\ inv[i].pc \notin {"idle", "getUserId"}
                          /\ IsTextEvent(event) /\ ~FromUs(event)
                          /\ IsUserIdentifier(event.sender)
        IN  /\ Len(inv[i].calls) <= 1
            /\ CommandOf(event) \in {"hello", "none"} => inv[i].calls = <<>>
            /\ (dispatched /\ CommandOf(event) = "myclasses")
                  => /\ Methods(i) = <<"getUserLists">>
                     /\ inv[i].calls[1].args.memberID = NameOf(event.sender)
            /\ (dispatched /\ CommandOf(event) = "myname")
                  => /\ Methods(i) = <<"getUserAttributes">>
                     /\ inv[i].calls[1].args.memberID = NameOf(event.sender)
            /\ (sent[i] # <<>> /\ CommandOf(event) \in {"myclasses", "myname"})
                  => Len(inv[i].calls) = 1 /\ inv[i].answered
            /\ inv[i].answered => Len(inv[i].calls) = 1

C9_Witness ==
    \E i, j \in Invocations :
        /\ CommandOf(inv[i].event) = "myclasses" /\ sent[i] # <<>>
        /\ CommandOf(inv[j].event) = "myname" /\ inv[j].pc = "getUserName"
        /\ sent[j] = <<>>

Answerable(i) ==
    /\ inv[i].pc = "getUserId"
    /\ IsTextEvent(inv[i].event) /\ ~FromUs(inv[i].event)
    /\ IsUserIdentifier(inv[i].event.sender)
    /\ CommandOf(inv[i].event) # "none"
AwaitsAnswer(i) == inv[i].pc \in {"getUserClasses", "getUserName"}

\* C10: a handler's failure is not caught and leaves its event without a reply:
\* a malformed sender rejects with a TypeError, a null answer with NoAPIResult.
\* It touches no other invocation: each handler awaiting getUserId or an answer
\* can be resumed whatever state the others are in, a command from a well-formed
\* sender gets its reply unless its own remote call fails or never answers, and
\* an answer that makes getUserClasses or getUserName return is replied at once
C10_FailureIsContained ==
    /\ [](\A i \in Invocations :
            /\ inv[i].pc = "failed"
                  => sent[i] = <<>> /\ inv[i].error \in {"TypeError", "NoAPIResult"}
            /\ (inv[i].answered /\ inv[i].answer.isNull)
                  => inv[i].pc = "failed" /\ inv[i].error = "NoAPIResult"
            /\ (inv[i].pc \notin {"idle", "getUserId"} /\ ~FromUs(inv[i].event)
                  /\ ~IsUserIdentifier(inv[i].event.sender))
                  => inv[i].pc = "failed" /\ inv[i].error = "TypeError"
            /\ inv[i].pc = "getUserId" => ENABLED Dispatch(i)
            /\ inv[i].pc = "getUserClasses"
                  => ENABLED (\E answer \in UserListsAnswers : MyClasses(i, answer))
            /\ inv[i].pc = "getUserName"
                  => ENABLED (\E answer \in UserAttributesAnswers : MyName(i, answer)))
    /\ [][\A i \in Invocations :
            (AwaitsAnswer(i) /\ inv'[i].pc = "done")
               => sent'[i] # <<>> /\ \A j \in Invocations \ {i} : sent'[j] = sent[j]]_vars
    /\ \A i \in Invocations :
            Answerable(i) ~> (sent[i] # <<>> \/ AwaitsAnswer(i))

C10_Witness ==
    \E i, j \in Invocations :
        /\ i < j
        /\ inv[i].pc = "failed" /\ inv[i].error = "NoAPIResult"
        /\ inv[j].pc = "done" /\ sent[j] # <<>>
        /\ CommandOf(inv[j].event) = "myname"

----------------------------------------------------------------------------
(* Properties of extractLocalpart *)

\* C5: extractLocalpart returns name for every @name:domain, and throws for
\* every string that does not begin with "@" or holds no ":"
C5_LocalpartOrThrow ==
    localpart # NotCalled =>
        /\ IsUserIdentifier(username) => localpart = Return(NameOf(username))
        /\ (username = <<>> \/ Head(username) # "@" \/ ~Includes(username, ":"))
              => localpart.kind = "throw"

----------------------------------------------------------------------------
(* Properties of the adapter *)

MembersOf(seq) == [k \in 1..Len(seq) |-> seq[k].member]

\* the text of str from position from up to the next sep, or to the end
UpTo(str, from, sep) ==
    LET next == { k \in from..Len(str) : str[k] = sep }
    IN  SubSeq(str, from, IF next = {} THEN Len(str) ELSE Min(next) - 1)
FirstIndex(str, sep) == Min({ k \in 1..Len(str) : str[k] = sep })

\* the claim's reading: kerb/root@REALM or kerb@REALM, REALM one of the two
RealmStrings == { <<"ATHENA.MIT.EDU">>, <<"MIT.EDU">> }
IsPlain(str) == \A k \in 1..Len(str) : str[k] \notin {"/", "@"}
ClaimedAccepted(name) ==
    \E realm \in RealmStrings :
        \/ /\ Len(name) > 4 /\ IsPlain(SubSeq(name, 1, Len(name) - 4))
           /\ SubSeq(name, Len(name) - 3, Len(name)) = <<"/", "root", "@">> \o realm
        \/ /\ Len(name) > 2 /\ IsPlain(SubSeq(name, 1, Len(name) - 2))
           /\ SubSeq(name, Len(name) - 1, Len(name)) = <<"@">> \o realm
ClaimedKerbs(seq) ==
    [k \in 1..Len(seq) |->
        UpTo(seq[k].member, 1, IF Includes(seq[k].member, "/") THEN "/" ELSE "@")]

\* what the code accepts: with a "/", the text between the first "/" and the
\* next is root@ATHENA.MIT.EDU; without one, the text between the first "@" and
\* the next is one of the two realms
Accepted(name) ==
    IF Includes(name, "/")
    THEN UpTo(name, FirstIndex(name, "/") + 1, "/") = <<"root", "@", "ATHENA.MIT.EDU">>
    ELSE /\ Includes(name, "@")
         /\ UpTo(name, FirstIndex(name, "@") + 1, "@") \in RealmStrings
KerbsOf(seq) ==
    [k \in 1..Len(seq) |->
        LET name == seq[k].member
        IN  SubSeq(name, 1, FirstIndex(name, IF Includes(name, "/") THEN "/" ELSE "@") - 1)]

IsRecursiveQuery ==
    /\ request.method = "getListMembership"
    /\ request.args.recursiveSearch = TRUE
    /\ request.args.maxReturnCount = 0

\* C6 as stated: the USER members, then the kerbs of the KERBEROS members of form
\* kerb/root@REALM or kerb@REALM with REALM one of ATHENA.MIT.EDU and MIT.EDU
C6_AsClaimed ==
    (method = "getMITMembersOfList" /\ ~result.isNull) =>
        /\ IsRecursiveQuery
        /\ outcome =
             Return(MembersOf(SelectSeq(result.ret, LAMBDA m : m.type = "USER"))
                    \o ClaimedKerbs(SelectSeq(result.ret, LAMBDA m : m.type = "KERBEROS"
                                                     /\ ClaimedAccepted(m.member))))

\* C6 amended: the USER members in order, then for each KERBEROS member in order
\* the text before its first "/" when it has one and root@ATHENA.MIT.EDU follows
\* up to the next "/", or the text before its first "@" when it has no "/" and
\* ATHENA.MIT.EDU or MIT.EDU follows up to the next "@"; other types (LIST,
\* STRING, a type in another case) are left out and duplicates are kept
C6_MITMembers ==
    (method = "getMITMembersOfList" /\ ~result.isNull) =>
        /\ IsRecursiveQuery
        /\ outcome =
             Return(MembersOf(SelectSeq(result.ret, LAMBDA m : m.type = "USER"))
                    \o KerbsOf(SelectSeq(result.ret, LAMBDA m : m.type = "KERBEROS"
                                                     /\ Accepted(m.member))))

C6_Witness ==
    /\ method = "getMITMembersOfList"
    /\ Len(result.ret) = 3
    /\ result.ret[1].type = "KERBEROS"
    /\ result.ret[1].member = <<"xyz", "/", "root", "@", "ATHENA.MIT.EDU">>
    /\ result.ret[2].type = "KERBEROS"
    /\ result.ret[2].member = <<"xyz", "/", "root", "@", "MIT.EDU">>
    /\ result.ret[3].type = "USER"
    /\ result.ret[3].member = <<"abc">>
    /\ outcome = Return(<< <<"abc">>, <<"xyz">> >>)

ListMethods ==
    {"getMembersOfList", "getMITMembersOfList", "getUserLists", "getUserClasses"}

\* C7: every adapter method throws NoAPIResult when result[0] is null; when the
\* payload is an empty collection no method throws, and the methods that return
\* a list return the empty list
C7_NullThrowsEmptyReturns ==
    method # "none" =>
        /\ result.isNull => outcome = Throw("NoAPIResult")
        /\ (~result.isNull /\ result.ret = <<>>)
              => /\ outcome.kind = "return"
                 /\ method \in ListMethods => outcome.value = <<>>

RECURSIVE IsSubsequence(_, _)
IsSubsequence(a, b) ==
    IF a = <<>> THEN TRUE
    ELSE IF b = <<>> THEN FALSE
    ELSE IF Head(a) = Head(b) THEN IsSubsequence(Tail(a), Tail(b))
    ELSE IsSubsequence(a, Tail(b))

ExampleLists ==
    << <<"canvas", "-2023", "-6.004">>, <<"sipb-board">>, <<"canvas", "-archive">> >>

\* C8: getUserClasses returns the names that start with canvas, in order; the
\* !myclasses reply is the names that start with canvas-2023 joined by newlines,
\* always a subsequence of the library's answer
C8_ClassesAtBothLayers ==
    (method = "getUserClasses" /\ ~result.isNull) =>
        /\ request.method = "getUserLists"
        /\ outcome = Return(SelectSeq(result.ret, LAMBDA n : HasPrefix(n, <<"canvas">>)))
        /\ currentClasses(outcome.value) =
             SelectSeq(result.ret, LAMBDA n : HasPrefix(n, <<"canvas", "-2023">>))
        /\ myclassesReply(outcome.value) =
             Join(SelectSeq(result.ret, LAMBDA n : HasPrefix(n, <<"canvas", "-2023">>)),
                  <<"\n">>)
        /\ IsSubsequence(currentClasses(outcome.value), outcome.value)
        /\ result.ret = ExampleLists
              => /\ outcome.value = << <<"canvas", "-2023", "-6.004">>,
                                       <<"canvas", "-archive">> >>
                 /\ myclassesReply(outcome.value) = <<"canvas", "-2023", "-6.004">>

C8_Witness ==
    /\ method = "getUserClasses"
    /\ result = Payload(ExampleLists)
    /\ outcome.kind = "return"
    /\ Len(outcome.value) = 2

====
